---- MODULE Spec2Model ----
(***************************************************************************)
(* Telemetry replay: the useTelemetry hook (source loading, playback      *)
(* clock, seek) of src/src/hooks/useTelemetry.ts and the lap analysis of  *)
(* src/src/utils/telemetryParser.ts.                                      *)
(*                                                                         *)
(* Time.  Frame times and the playback-time accumulator are seconds in    *)
(* the source; here they are counted in 1/UnitsPerSecond of a second so   *)
(* that they stay integers.  Wall-clock timestamps (performance.now(),    *)
(* the animation-frame timestamp) are milliseconds, as in the source.     *)
(*                                                                         *)
(* React.  useState values are the published state.  An update made by a  *)
(* click handler is rendered and its effects are run before the handler's *)
(* task ends, so a click is one action.  An update made from an           *)
(* animation-frame callback or from a promise continuation is rendered    *)
(* later and its passive effects run later still: those effects are kept  *)
(* in pendingEffects and run by FlushEffects (or ahead of the next        *)
(* render), and an animation frame may fire in between.                   *)
(***************************************************************************)
EXTENDS Integers, Sequences, FiniteSets, TLC

VARIABLES
    source,           \* the hook's argument: 0 = null, else a source id
    data,             \* useState data, with the source it was parsed from
    laps,             \* useState laps: [src, n] (n = number of laps)
    idealLap,         \* useState idealLap: 0 = null, else the source id
    currentIndex,     \* useState currentIndex (published index)
    isPlaying,        \* useState isPlaying
    playbackSpeed,    \* useState playbackSpeed
    isLooping,        \* useState isLooping
    requestRef,       \* the outstanding animation-frame request
    lastTimeRef,      \* wall-clock reference, ms
    playbackTimeRef,  \* accumulated playback time
    stateRef,         \* [currentIndex, data, isPlaying, isLooping]
    loopRef,          \* playbackSpeed captured by loopRef.current
    pendingEffects,   \* passive effects rendered but not yet run
    inflight,         \* loadData() calls not yet settled, per source
    now,              \* performance.now(), ms
    mounted,          \* the component using the hook is mounted
    targetTime,       \* local targetTime of the last operation, if a tick
    thrown,           \* the last operation raised an uncaught TypeError
    op,               \* the last operation
    pre,              \* what the last operation started from
    recording,        \* lap analysis: the frames handed to detectLaps
    track,            \* lap analysis: how the recording was driven
    detected,         \* lap analysis: [done, laps] result of detectLaps
    scan,             \* lap analysis: what the loop of findLapsForPos did
    ideal,            \* lap analysis: [done, lap, picks] of calculateIdealLap
    resampled,        \* lap analysis: [done, of, lap] result of resampleLap
    ghost             \* lap analysis: [done, index, ..] of getGhostFrame

playVars == <<source, data, laps, idealLap, currentIndex,
              isPlaying, playbackSpeed, isLooping, requestRef, lastTimeRef,
              playbackTimeRef, stateRef, loopRef, pendingEffects, inflight,
              now, mounted, targetTime, thrown, op, pre>>

lapVars == <<recording, track, detected, scan, ideal, resampled, ghost>>

vars == <<playVars, lapVars>>

----------------------------------------------------------------------------
(* Bounds and inputs *)

UnitsPerSecond == 1000
MsPerSecond == 1000

MaxNow == 1500
MaxInflight == 1

Sources == {1, 2}
Speeds == {1, 2}
TickDeltas == {500}
SeekArgs == {-5, 0, 1, 103}

\* Frame sequences the sources parse to (frame.time only; the playback
\* clock reads no other field).
FramesOf(s) ==
    IF s = 1 THEN <<0, 1 * UnitsPerSecond, 2 * UnitsPerSecond, 3 * UnitsPerSecond>>
    ELSE <<2 * UnitsPerSecond, 3 * UnitsPerSecond>>

\* Outcome of detectLaps / calculateIdealLap on each source's recording:
\* source 1 has three laps and an ideal lap, source 2 has no lap.
LapCountOf(s) == IF s = 1 THEN 3 ELSE 0
HasIdealOf(s) == s = 1

NoData == [src |-> 0, frames |-> <<>>]
NoLaps == [src |-> 0, n |-> 0]

----------------------------------------------------------------------------
(* JavaScript array access: arr[k] is undefined outside 0..length-1 *)

Has(frames, k) == k >= 0 /\ k < Len(frames)
At(frames, k) == frames[k + 1]

\* a tick that forgets the speed multiplier
DeltaSeconds_NoSpeed(time, last, speed) ==
    ((time - last) * UnitsPerSecond) \div MsPerSecond

\* deltaSeconds of the tick
DeltaSeconds(time, last, speed) ==
    ((time - last) * speed * UnitsPerSecond) \div MsPerSecond

\* the while loop of the tick
RECURSIVE Advance(_, _, _)
Advance(frames, idx, target) ==
    IF idx < Len(frames) - 1
    THEN IF At(frames, idx + 1) > target
         THEN idx
         ELSE Advance(frames, idx + 1, target)
    ELSE idx

\* reading frames[newIndex + 1].time of an undefined frame
AdvanceThrows(frames, idx) == idx < Len(frames) - 1 /\ ~Has(frames, idx + 1)

\* "if we reached the end"
ReachedEnd(frames, idx) == idx >= Len(frames) - 1

\* a tick that rewinds at the end whether looping or not
NewIndex_Rewind(frames, advanced, looping) ==
    IF ReachedEnd(frames, advanced) THEN 0 ELSE advanced

\* the index the tick ends with: back to the start when looping at the end
NewIndex(frames, advanced, looping) ==
    IF ReachedEnd(frames, advanced) /\ looping THEN 0 ELSE advanced

\* a loop-back that leaves the accumulator where the tick put it
NewPlaybackTime_NoReset(frames, advanced, looping, target) == target

\* the accumulator the tick ends with
NewPlaybackTime(frames, advanced, looping, target) ==
    IF ReachedEnd(frames, advanced) /\ looping THEN At(frames, 0) ELSE target

\* setIsPlaying(false) at the end when not looping
NewIsPlaying(frames, advanced, looping, playing) ==
    IF ReachedEnd(frames, advanced) /\ ~looping THEN FALSE ELSE playing

----------------------------------------------------------------------------
(* The refs, and the effects that write them *)

NoRequest == [scheduled |-> FALSE, speed |-> 0]

Refs == [sr |-> stateRef, last |-> lastTimeRef, pt |-> playbackTimeRef,
         req |-> requestRef, lp |-> loopRef]

SetRefs(R) ==
    /\ stateRef' = R.sr
    /\ lastTimeRef' = R.last
    /\ playbackTimeRef' = R.pt
    /\ requestRef' = R.req
    /\ loopRef' = R.lp

\* useEffect [data, isLooping]
DataEffect(R, d, l) == [R EXCEPT !.sr.data = d.frames, !.sr.isLooping = l]

\* useEffect [loop, playbackSpeed]
LoopEffect(R, spd) == [R EXCEPT !.lp = spd]

\* cleanup of useEffect [isPlaying, loop]
PlayCleanup(R) == [R EXCEPT !.req = NoRequest]

\* useEffect [isPlaying, loop]; spd is the speed the rendered loop captured
PlayEffect(R, playing, spd, t) ==
    LET R1 == [R EXCEPT !.sr.isPlaying = playing]
    IN  IF playing
        THEN [R1 EXCEPT !.last = t,
                        !.pt = IF Has(R.sr.data, R.sr.currentIndex)
                               THEN At(R.sr.data, R.sr.currentIndex)
                               ELSE @,
                        !.req = [scheduled |-> TRUE, speed |-> spd]]
        ELSE [R1 EXCEPT !.req = NoRequest]

\* useEffect [playbackSpeed]
SpeedEffect(R, t) == [R EXCEPT !.last = t]

\* passive effects of earlier renders, run with the values they rendered
FlushPending(R) ==
    LET R1 == IF "data" \in pendingEffects
              THEN DataEffect(R, data, isLooping) ELSE R
    IN  IF "play" \in pendingEffects
        THEN PlayEffect(PlayCleanup(R1), isPlaying, playbackSpeed, now)
        ELSE R1

Snapshot(arg) ==
    [currentIndex |-> currentIndex, refIndex |-> stateRef.currentIndex,
     frames |-> stateRef.data, playbackTime |-> playbackTimeRef,
     lastTime |-> lastTimeRef, isPlaying |-> isPlaying,
     refPlaying |-> stateRef.isPlaying, isLooping |-> stateRef.isLooping,
     speed |-> playbackSpeed, arg |-> arg]

----------------------------------------------------------------------------
\* an operation that is not the tick has no targetTime and raises nothing
NoTick == targetTime' = 0 /\ thrown' = FALSE

\* operations other than seek and the tick record no snapshot
NoSnapshot ==
    [currentIndex |-> 0, refIndex |-> 0, frames |-> <<>>, playbackTime |-> 0,
     lastTime |-> 0, isPlaying |-> FALSE, refPlaying |-> FALSE,
     isLooping |-> FALSE, speed |-> 0, arg |-> 0]

----------------------------------------------------------------------------
(* Initial state: the hook mounted with source = null *)

PlayInit ==
    /\ source = 0
    /\ data = NoData
    /\ laps = NoLaps
    /\ idealLap = 0
    /\ currentIndex = 0
    /\ isPlaying = FALSE
    /\ playbackSpeed = 1
    /\ isLooping = FALSE
    /\ requestRef = NoRequest
    /\ lastTimeRef = 0
    /\ playbackTimeRef = 0
    /\ stateRef = [currentIndex |-> 0, data |-> <<>>,
                   isPlaying |-> FALSE, isLooping |-> FALSE]
    /\ loopRef = 1
    /\ pendingEffects = {}
    /\ inflight = [s \in Sources |-> 0]
    /\ now = 0
    /\ mounted = TRUE
    /\ targetTime = 0
    /\ thrown = FALSE
    /\ op = "other"
    /\ pre = NoSnapshot

NoTrack == [period |-> 0, loops |-> 0, step |-> 0, pace |-> "even",
            shape |-> "circuit"]
NotDetected == [done |-> FALSE, laps |-> <<>>]
NotScanned == [fired |-> {}, started |-> {}]
Null == [null |-> TRUE]
NoIdeal == [done |-> FALSE, lap |-> Null, picks |-> <<>>, sectors |-> <<>>]
NotResampled == [done |-> FALSE, of |-> 0, lap |-> Null]
Undefined == [undefined |-> TRUE]
NoGhost == [done |-> FALSE, index |-> 0, result |-> Null, lap |-> 0,
            relativeTime |-> 0]

Init ==
    /\ PlayInit
    /\ recording = <<>>
    /\ track = NoTrack
    /\ detected = NotDetected
    /\ scan = NotScanned
    /\ ideal = NoIdeal
    /\ resampled = NotResampled
    /\ ghost = NoGhost

----------------------------------------------------------------------------
(* Source effect and loadData *)

\* the caller selects another source: the [source] effect resets the state
\* and starts loadData()
SelectSource(s) ==
    /\ mounted
    /\ s # source
    /\ inflight[s] < MaxInflight
    /\ LET R0 == FlushPending(Refs)
           R1 == DataEffect(R0, NoData, isLooping)
           R2 == IF isPlaying
                 THEN PlayEffect(PlayCleanup(R1), FALSE, playbackSpeed, now)
                 ELSE R1
       IN  SetRefs(R2)
    /\ source' = s
    /\ data' = NoData
    /\ laps' = NoLaps
    /\ idealLap' = 0
    /\ currentIndex' = 0
    /\ isPlaying' = FALSE
    /\ inflight' = [inflight EXCEPT ![s] = @ + 1]
    /\ pendingEffects' = {}
    /\ op' = "source"
    /\ pre' = NoSnapshot
    /\ UNCHANGED <<playbackSpeed, isLooping, now, mounted>>
    /\ NoTick
    /\ UNCHANGED lapVars

\* loadData() of source s resolves: frames parsed, laps detected
LoadComplete(s) ==
    /\ mounted
    /\ inflight[s] > 0
    /\ inflight' = [inflight EXCEPT ![s] = @ - 1]
    /\ data' = [src |-> s, frames |-> FramesOf(s)]
    /\ laps' = [src |-> s, n |-> LapCountOf(s)]
    /\ idealLap' = IF LapCountOf(s) > 0
                   THEN (IF HasIdealOf(s) THEN s ELSE 0)
                   ELSE idealLap
    /\ pendingEffects' = pendingEffects \cup {"data"}
    /\ op' = "other"
    /\ pre' = NoSnapshot
    /\ UNCHANGED <<source, currentIndex, isPlaying, playbackSpeed,
                   isLooping, requestRef, lastTimeRef, playbackTimeRef,
                   stateRef, loopRef, now, mounted>>
    /\ NoTick
    /\ UNCHANGED lapVars

\* loadData() of source s rejects (fetch, file read or parse failed)
LoadFail(s) ==
    /\ mounted
    /\ inflight[s] > 0
    /\ inflight' = [inflight EXCEPT ![s] = @ - 1]
    /\ op' = "other"
    /\ pre' = NoSnapshot
    /\ UNCHANGED <<source, data, laps, idealLap, currentIndex, isPlaying,
                   playbackSpeed, isLooping, requestRef, lastTimeRef,
                   playbackTimeRef, stateRef, loopRef, pendingEffects, now,
                   mounted>>
    /\ NoTick
    /\ UNCHANGED lapVars

----------------------------------------------------------------------------
(* Playback controls *)

\* togglePlay, then the [isPlaying, loop] effect
TogglePlay ==
    /\ mounted
    /\ isPlaying' = ~isPlaying
    /\ LET R0 == FlushPending(Refs)
       IN  SetRefs(PlayEffect(PlayCleanup(R0), ~isPlaying, playbackSpeed, now))
    /\ pendingEffects' = {}
    /\ op' = "other"
    /\ pre' = NoSnapshot
    /\ UNCHANGED <<source, data, laps, idealLap, currentIndex,
                   playbackSpeed, isLooping, inflight, now, mounted>>
    /\ NoTick
    /\ UNCHANGED lapVars

\* seek(index)
seek(index) ==
    /\ mounted
    /\ currentIndex' = index
    /\ LET R0 == [Refs EXCEPT !.sr.currentIndex = index,
                              !.pt = IF Has(stateRef.data, index)
                                     THEN At(stateRef.data, index)
                                     ELSE @]
       IN  SetRefs(FlushPending(R0))
    /\ pendingEffects' = {}
    /\ op' = "seek"
    /\ pre' = Snapshot(index)
    /\ UNCHANGED <<source, data, laps, idealLap, isPlaying,
                   playbackSpeed, isLooping, inflight, now, mounted>>
    /\ NoTick
    /\ UNCHANGED lapVars

\* setPlaybackSpeed(m): loop is re-created, so the [loop, playbackSpeed],
\* [isPlaying, loop] and [playbackSpeed] effects run
setPlaybackSpeed(m) ==
    /\ mounted
    /\ m # playbackSpeed
    /\ playbackSpeed' = m
    /\ LET R0 == FlushPending(Refs)
           R1 == LoopEffect(PlayCleanup(R0), m)
           R2 == PlayEffect(R1, isPlaying, m, now)
       IN  SetRefs(SpeedEffect(R2, now))
    /\ pendingEffects' = {}
    /\ op' = "other"
    /\ pre' = NoSnapshot
    /\ UNCHANGED <<source, data, laps, idealLap, currentIndex,
                   isPlaying, isLooping, inflight, now, mounted>>
    /\ NoTick
    /\ UNCHANGED lapVars

\* setIsLooping(!isLooping), then the [data, isLooping] effect
setIsLooping ==
    /\ mounted
    /\ isLooping' = ~isLooping
    /\ SetRefs(DataEffect(FlushPending(Refs), data, ~isLooping))
    /\ pendingEffects' = {}
    /\ op' = "other"
    /\ pre' = NoSnapshot
    /\ UNCHANGED <<source, data, laps, idealLap, currentIndex,
                   isPlaying, playbackSpeed, inflight, now, mounted>>
    /\ NoTick
    /\ UNCHANGED lapVars

\* the animation-frame callback, fired d ms after the previous event and
\* no later than limit
loopUntil(d, limit) ==
    /\ mounted
    /\ requestRef.scheduled
    /\ now + d <= limit
    /\ now' = now + d
    /\ op' = "tick"
    /\ pre' = Snapshot(d)
    /\ IF ~stateRef.isPlaying
       THEN /\ requestRef' = NoRequest
            /\ NoTick
            /\ UNCHANGED <<currentIndex, isPlaying, lastTimeRef,
                           playbackTimeRef, stateRef, pendingEffects>>
       ELSE LET time     == now + d
                frames   == stateRef.data
                start    == stateRef.currentIndex
                looping  == stateRef.isLooping
                target   == playbackTimeRef
                              + DeltaSeconds(time, lastTimeRef, requestRef.speed)
                advanced == Advance(frames, start, target)
                newIndex == NewIndex(frames, advanced, looping)
                throws   == \/ AdvanceThrows(frames, start)
                            \/ /\ ReachedEnd(frames, advanced)
                               /\ looping
                               /\ ~Has(frames, 0)
            IN  /\ targetTime' = target
                /\ IF throws
                   THEN /\ thrown' = TRUE
                        /\ playbackTimeRef' = target
                        /\ requestRef' = NoRequest
                        /\ UNCHANGED <<currentIndex, isPlaying, lastTimeRef,
                                       stateRef, pendingEffects>>
                   ELSE /\ thrown' = FALSE
                        /\ playbackTimeRef' =
                              NewPlaybackTime(frames, advanced, looping, target)
                        /\ isPlaying' =
                              NewIsPlaying(frames, advanced, looping, isPlaying)
                        /\ pendingEffects' =
                              IF isPlaying' # isPlaying
                              THEN pendingEffects \cup {"play"}
                              ELSE pendingEffects
                        /\ stateRef' = [stateRef EXCEPT !.currentIndex = newIndex]
                        /\ currentIndex' = IF newIndex # start THEN newIndex
                                                               ELSE currentIndex
                        /\ lastTimeRef' = time
                        /\ requestRef' = [scheduled |-> TRUE, speed |-> loopRef]
    /\ UNCHANGED <<source, data, laps, idealLap,
                   playbackSpeed, isLooping, loopRef, inflight, mounted>>
    /\ UNCHANGED lapVars

\* the animation-frame callback within the time the playback model covers
loop(d) == loopUntil(d, MaxNow)

\* the passive effects of a render made outside a click handler run
FlushEffects ==
    /\ mounted
    /\ pendingEffects # {}
    /\ SetRefs(FlushPending(Refs))
    /\ pendingEffects' = {}
    /\ op' = "other"
    /\ pre' = NoSnapshot
    /\ UNCHANGED <<source, data, laps, idealLap, currentIndex,
                   isPlaying, playbackSpeed, isLooping, inflight, now,
                   mounted>>
    /\ NoTick
    /\ UNCHANGED lapVars

\* wall-clock time passes with no animation frame firing
Elapse(d) ==
    /\ mounted
    /\ ~requestRef.scheduled
    /\ now + d <= MaxNow
    /\ now' = now + d
    /\ op' = "other"
    /\ pre' = NoSnapshot
    /\ UNCHANGED <<source, data, laps, idealLap, currentIndex,
                   isPlaying, playbackSpeed, isLooping, requestRef,
                   lastTimeRef, playbackTimeRef, stateRef, loopRef,
                   pendingEffects, inflight, mounted>>
    /\ NoTick
    /\ UNCHANGED lapVars

\* the component unmounts: pending effects and every cleanup run
Unmount ==
    /\ mounted
    /\ mounted' = FALSE
    /\ SetRefs(PlayCleanup(FlushPending(Refs)))
    /\ pendingEffects' = {}
    /\ op' = "other"
    /\ pre' = NoSnapshot
    /\ UNCHANGED <<source, data, laps, idealLap, currentIndex,
                   isPlaying, playbackSpeed, isLooping, inflight, now>>
    /\ NoTick
    /\ UNCHANGED lapVars

Next ==
    \/ \E s \in Sources : SelectSource(s)
    \/ \E s \in Sources : LoadComplete(s)
    \/ \E s \in Sources : LoadFail(s)
    \/ TogglePlay
    \/ \E i \in SeekArgs : seek(i)
    \/ \E m \in Speeds : setPlaybackSpeed(m)
    \/ setIsLooping
    \/ \E d \in TickDeltas : loop(d)
    \/ FlushEffects
    \/ \E d \in TickDeltas : Elapse(d)
    \/ Unmount

Spec == Init /\ [][Next]_vars

----------------------------------------------------------------------------
(* Properties of the playback clock *)

\* the last operation was a tick that ran while the handler saw Playing
Ticked == op = "tick" /\ pre.refPlaying

\* the index the last tick's while loop stopped at
TickAdvanced == Advance(pre.frames, pre.refIndex, targetTime)

\* the last operation was a tick that took the loop-back branch
LoopWrapped ==
    /\ Ticked
    /\ ~thrown
    /\ pre.isLooping
    /\ ~AdvanceThrows(pre.frames, pre.refIndex)
    /\ TickAdvanced >= Len(pre.frames) - 1

\* C1: seek(index) on a non-empty frame sequence with index outside
\* [0, length-1] sets the current index to 0 (index < 0) or to length-1
\* (index > length-1) and raises no error.
C1_SeekClamps ==
    (op = "seek" /\ Len(data.frames) > 0 /\ ~Has(data.frames, pre.arg))
        => /\ currentIndex = IF pre.arg < 0 THEN 0 ELSE Len(data.frames) - 1
           /\ ~thrown

\* C2: whenever the frame sequence is non-empty the current index lies in
\* [0, length-1], so the current frame data[currentIndex] is defined.
C2_IndexInRange ==
    Len(data.frames) > 0 => Has(data.frames, currentIndex)

\* C3: the frames, laps and ideal lap the session exposes were computed
\* from the currently selected source, or are the reset (empty) values.
C3_NoStaleData ==
    /\ data.src \in {0, source}
    /\ laps.src \in {0, source}
    /\ idealLap \in {0, source}

\* C4: with looping disabled, a tick in state Playing whose advance stops
\* at the final frame (or that starts there) leaves the current index at
\* length-1 and the clock Paused.
C4_EndPauses ==
    (/\ Ticked
     /\ pre.isPlaying
     /\ ~pre.isLooping
     /\ Has(pre.frames, pre.refIndex)
     /\ TickAdvanced = Len(pre.frames) - 1)
        => /\ currentIndex = Len(pre.frames) - 1
           /\ ~isPlaying

\* C5: with looping enabled, a tick in state Playing whose advance reaches
\* the final frame sets the index to 0, resets the accumulated playback
\* time to the first frame's time and leaves the clock Playing.
C5_LoopWraps ==
    (/\ Ticked
     /\ pre.isPlaying
     /\ pre.isLooping
     /\ Len(pre.frames) > 0
     /\ ~AdvanceThrows(pre.frames, pre.refIndex)
     /\ TickAdvanced >= Len(pre.frames) - 1)
        => /\ currentIndex = 0
           /\ stateRef.currentIndex = 0
           /\ playbackTimeRef = At(pre.frames, 0)
           /\ isPlaying
           /\ stateRef.isPlaying
           /\ requestRef.scheduled
           /\ ~thrown

C5_Witness ==
    /\ Ticked
    /\ pre.isPlaying
    /\ pre.isLooping
    /\ Len(pre.frames) > 1
    /\ pre.refIndex = pre.currentIndex
    /\ Has(pre.frames, pre.refIndex)
    /\ pre.refIndex < Len(pre.frames) - 1
    /\ TickAdvanced = Len(pre.frames) - 1
    /\ targetTime > At(pre.frames, 0)
    /\ currentIndex = 0
    /\ playbackTimeRef = At(pre.frames, 0)
    /\ playbackTimeRef > 0

C7_PausedTickInert ==
    (op = "tick" /\ ~pre.isPlaying)
        => /\ playbackTimeRef = pre.playbackTime
           /\ currentIndex = pre.currentIndex
           /\ stateRef.currentIndex = pre.refIndex

\* C8: play, pause, seek and tick never raise an error, whatever the frame
\* sequence (empty included), play state, loop flag and speed.
C8_NoError == ~thrown

\* C9: a tick in state Playing adds (tick_time - last_tick_time) * speed
\* / 1000 seconds to the accumulated playback time; with speed 2 and a
\* wall-clock delta of 500 ms that is 1.0 s.
C9_TickAddsDelta ==
    Ticked =>
        /\ (targetTime - pre.playbackTime) * MsPerSecond
              = (now - pre.lastTime) * pre.speed * UnitsPerSecond
        /\ (pre.speed = 2 /\ now - pre.lastTime = 500)
              => targetTime - pre.playbackTime = 1 * UnitsPerSecond
        /\ (~LoopWrapped) => playbackTimeRef = targetTime

C9_Witness ==
    /\ Ticked
    /\ pre.isPlaying
    /\ pre.speed = 2
    /\ now - pre.lastTime = 500
    /\ playbackTimeRef = pre.playbackTime + 1 * UnitsPerSecond

----------------------------------------------------------------------------
(* Lap analysis (lapAnalysis part of src/src/utils/telemetryParser.ts)     *)
(*                                                                         *)
(* A frame is [time, latitude, longitude].  Latitude and longitude are    *)
(* centimetres north and east of a reference point on the track, and      *)
(* distances are whole centimetres: over a track a few hundred metres     *)
(* across the Haversine distance and the plane distance differ by less    *)
(* than that.                                                              *)

CmPerMetre == 100

RECURSIVE SqrtIter(_, _, _)
SqrtIter(n, lo, hi) ==
    IF lo >= hi THEN lo
    ELSE LET mid == (lo + hi + 1) \div 2
         IN  IF mid * mid <= n THEN SqrtIter(n, mid, hi)
                               ELSE SqrtIter(n, lo, mid - 1)

\* floor of the square root
ISqrt(n) == SqrtIter(n, 0, 46340)

getDistanceFromLatLonInM(lat1, lon1, lat2, lon2) ==
    LET dLat == lat2 - lat1
        dLon == lon2 - lon1
    IN  ISqrt(dLat * dLat + dLon * dLon)

Infinity == 2000000000
START_FINISH_PROXIMITY == 20 * CmPerMetre
MIN_LAP_TIME == 30 * UnitsPerSecond
CandidateStep == 300
SearchLimitFrames == 10000
MinFrames == 100

\* sum of the point-to-point distances of a lap's frames
RECURSIVE LapDistance(_, _)
LapDistance(lapFrames, k) ==
    IF k >= Len(lapFrames) THEN 0
    ELSE getDistanceFromLatLonInM(lapFrames[k].latitude, lapFrames[k].longitude,
                                  lapFrames[k + 1].latitude,
                                  lapFrames[k + 1].longitude)
         + LapDistance(lapFrames, k + 1)

\* the lap pushed onto detectedLaps, its isComplete left false
MakeLap_NeverComplete(st, lapTime, complete) ==
    [lapIndex |-> Len(st.detectedLaps) + 1,
     lapTime |-> lapTime,
     frames |-> st.currentLap,
     totalDistance |-> LapDistance(st.currentLap, 1),
     isComplete |-> FALSE]

\* the lap pushed onto detectedLaps
MakeLap(st, lapTime, complete) ==
    [lapIndex |-> Len(st.detectedLaps) + 1,
     lapTime |-> lapTime,
     frames |-> st.currentLap,
     totalDistance |-> LapDistance(st.currentLap, 1),
     isComplete |-> complete]

\* the crossing test on frame i (0-based), dist being its distance
Crossing(dist, lastDist) ==
    /\ dist < START_FINISH_PROXIMITY
    /\ dist > lastDist
    /\ lastDist < START_FINISH_PROXIMITY

\* a crossing starts a new lap only after the minimum lap time
StartsLap(timeSinceLast) == timeSinceLast > MIN_LAP_TIME

\* one iteration of the for loop, the new lap seeded with the crossing
\* frame, which is then pushed again
LapStep_PushTwice(frames, startPos, i, st) ==
    LET frame == At(frames, i)
        dist == getDistanceFromLatLonInM(frame.latitude, frame.longitude,
                                         startPos.lat, startPos.lon)
        timeSinceLast == frame.time - st.lapStartTime
        newLap == Crossing(dist, st.lastDist) /\ StartsLap(timeSinceLast)
        st1 == IF newLap
               THEN [st EXCEPT
                       !.started = @ \cup {i},
                       !.detectedLaps =
                           IF st.onLap
                           THEN Append(@, MakeLap(st, timeSinceLast, TRUE))
                           ELSE @,
                       !.onLap = TRUE,
                       !.currentLap = <<frame>>,
                       !.lapStartTime = At(frames, i - 1).time]
               ELSE st
    IN  [st1 EXCEPT !.currentLap = IF st1.onLap THEN Append(@, frame) ELSE @,
                    !.lastDist = dist,
                    !.fired = IF Crossing(dist, st.lastDist)
                              THEN @ \cup {i} ELSE @]

\* one iteration of the for loop of findLapsForPos
LapStep(frames, startPos, i, st) ==
    LET frame == At(frames, i)
        dist == getDistanceFromLatLonInM(frame.latitude, frame.longitude,
                                         startPos.lat, startPos.lon)
        timeSinceLast == frame.time - st.lapStartTime
        newLap == Crossing(dist, st.lastDist) /\ StartsLap(timeSinceLast)
        st1 == IF newLap
               THEN [st EXCEPT
                       !.started = @ \cup {i},
                       !.detectedLaps =
                           IF st.onLap
                           THEN Append(@, MakeLap(st, timeSinceLast, TRUE))
                           ELSE @,
                       !.onLap = TRUE,
                       !.currentLap = <<>>,
                       !.lapStartTime = At(frames, i - 1).time]
               ELSE st
    IN  [st1 EXCEPT !.currentLap = IF st1.onLap THEN Append(@, frame) ELSE @,
                    !.lastDist = dist,
                    !.fired = IF Crossing(dist, st.lastDist)
                              THEN @ \cup {i} ELSE @]

\* the for loop of findLapsForPos over frames lo .. hi-1, in order
RECURSIVE LapLoop(_, _, _, _, _)
LapLoop(frames, startPos, lo, hi, st) ==
    IF lo >= hi THEN st
    ELSE IF hi = lo + 1 THEN LapStep(frames, startPos, lo, st)
    ELSE LET mid == (lo + hi) \div 2
             first == LapLoop(frames, startPos, lo, mid, st)
         IN  \* the test only makes the first half be evaluated first
             IF first.onLap \in BOOLEAN
             THEN LapLoop(frames, startPos, mid, hi, first)
             ELSE first

\* the locals of findLapsForPos after its for loop; fired and started
\* are history: the frames at which the crossing test held and the frames
\* at which a lap was started
ScanLaps(frames, startPos) ==
    LET st0 == [detectedLaps |-> <<>>, currentLap |-> <<>>,
                lastDist |-> Infinity, lapStartTime |-> At(frames, 0).time,
                onLap |-> FALSE, fired |-> {}, started |-> {}]
    IN  LapLoop(frames, startPos, 0, Len(frames), st0)

\* findLapsForPos without the final partial lap
findLapsForPos_NoPartial(frames, startPos) ==
    ScanLaps(frames, startPos).detectedLaps

findLapsForPos(frames, startPos) ==
    LET st == ScanLaps(frames, startPos)
    IN  IF st.onLap /\ Len(st.currentLap) > 0
        THEN Append(st.detectedLaps,
                    MakeLap(st, st.currentLap[Len(st.currentLap)].time
                                  - st.lapStartTime, FALSE))
        ELSE st.detectedLaps

CompleteCount(lapSeq) ==
    Cardinality({k \in 1..Len(lapSeq) : lapSeq[k].isComplete})

\* the candidate loop of detectLaps
RECURSIVE TryCandidates(_, _, _, _)
TryCandidates(frames, searchLimit, i, bestLaps) ==
    IF i >= searchLimit THEN bestLaps
    ELSE LET lapSeq == findLapsForPos(frames,
                          [lat |-> At(frames, i).latitude,
                           lon |-> At(frames, i).longitude])
             better ==
                 \/ CompleteCount(lapSeq) > CompleteCount(bestLaps)
                 \/ /\ CompleteCount(lapSeq) = CompleteCount(bestLaps)
                    /\ Len(lapSeq) > Len(bestLaps)
         IN  TryCandidates(frames, searchLimit, i + CandidateStep,
                           IF better THEN lapSeq ELSE bestLaps)

\* detectLaps refusing only the empty input
detectLaps_EmptyOnly(frames) ==
    IF Len(frames) = 0 THEN <<>>
    ELSE LET searchLimit == IF Len(frames) < SearchLimitFrames
                            THEN Len(frames) ELSE SearchLimitFrames
         IN  TryCandidates(frames, searchLimit, 0, <<>>)

detectLaps(frames) ==
    IF Len(frames) < MinFrames THEN <<>>
    ELSE LET searchLimit == IF Len(frames) < SearchLimitFrames
                            THEN Len(frames) ELSE SearchLimitFrames
         IN  TryCandidates(frames, searchLimit, 0, <<>>)

----------------------------------------------------------------------------
(* resampleLap and calculateIdealLap                                       *)

ResampleStep == 5 * CmPerMetre
MicroSectorSize == 50 * CmPerMetre

\* distMap of resampleLap: the distance run up to each frame of the lap
RECURSIVE BuildDistMap(_, _, _)
BuildDistMap(lapFrames, k, distMap) ==
    IF k > Len(lapFrames) THEN distMap
    ELSE BuildDistMap(lapFrames, k + 1,
            Append(distMap,
                   distMap[Len(distMap)]
                   + getDistanceFromLatLonInM(
                         lapFrames[k - 1].latitude, lapFrames[k - 1].longitude,
                         lapFrames[k].latitude, lapFrames[k].longitude)))

DistMap(lapFrames) == BuildDistMap(lapFrames, 2, <<0>>)

\* distMap.findIndex(val => val >= d), 0-based, -1 when there is none
FindIndex(distMap, d) ==
    LET hits == {k \in 1..Len(distMap) : distMap[k] >= d}
    IN  IF hits = {} THEN -1
        ELSE (CHOOSE k \in hits : \A l \in hits : k <= l) - 1

\* lerp without interpolation: the value at the earlier frame
lerp_Earlier(a, b, num, den) == a

\* lerp(a, b, t) for the ratio t = num / den
lerp(a, b, num, den) == a + ((b - a) * num) \div den

\* the frame resampleLap makes for the distance d
ResampledFrame(lapFrames, distMap, d) ==
    LET found == FindIndex(distMap, d)
        idx1 == IF found = -1 THEN Len(distMap) - 1 ELSE found
        idx == IF idx1 = 0 THEN 1 ELSE idx1
        d1 == At(distMap, idx - 1)
        d2 == At(distMap, idx)
        den == IF d2 - d1 = 0 THEN 1 ELSE d2 - d1
        f1 == At(lapFrames, idx - 1)
        f2 == At(lapFrames, idx)
    IN  [time |-> lerp(f1.time, f2.time, d - d1, den),
         latitude |-> lerp(f1.latitude, f2.latitude, d - d1, den),
         longitude |-> lerp(f1.longitude, f2.longitude, d - d1, den)]

resampleLap(lap) ==
    IF Len(lap.frames) < 2 THEN lap
    ELSE LET totalDist == lap.totalDistance
             distMap == DistMap(lap.frames)
             count == IF totalDist < 0 THEN 0
                      ELSE totalDist \div ResampleStep + 1
         IN  [lap EXCEPT
                !.frames = [j \in 1..count |->
                               ResampledFrame(lap.frames, distMap,
                                              (j - 1) * ResampleStep)],
                !.totalDistance = totalDist]

\* Math.min over the lengths of the resampled laps
MinLen(lapSeq) ==
    CHOOSE n \in {Len(lapSeq[l].frames) : l \in 1..Len(lapSeq)} :
        \A l \in 1..Len(lapSeq) : n <= Len(lapSeq[l].frames)

\* the sample index at which a lap's sector time ends
SectorEnd(lap, endIdx) ==
    LET last == Len(lap.frames) - 1
    IN  IF endIdx < last THEN endIdx ELSE last

\* the time a resampled lap takes over the sector, its start forgotten
SectorTime_FromZero(lap, startIdx, endIdx) ==
    LET last == Len(lap.frames) - 1
    IN  At(lap.frames, IF endIdx < last THEN endIdx ELSE last).time

\* the time a resampled lap takes over the sector startIdx .. endIdx
SectorTime(lap, startIdx, endIdx) ==
    LET last == Len(lap.frames) - 1
    IN  At(lap.frames, IF endIdx < last THEN endIdx ELSE last).time
        - At(lap.frames, startIdx).time

\* bestLapIdx (1-based): the first lap with the least sector time
BestLapIdx(lapSeq, startIdx, endIdx) ==
    CHOOSE l \in 1..Len(lapSeq) :
        /\ \A m \in 1..Len(lapSeq) :
              SectorTime(lapSeq[l], startIdx, endIdx)
                  <= SectorTime(lapSeq[m], startIdx, endIdx)
        /\ \A m \in 1..(l - 1) :
              SectorTime(lapSeq[l], startIdx, endIdx)
                  < SectorTime(lapSeq[m], startIdx, endIdx)

\* the time of a stitched frame, the running ideal time left out
IdealFrameTime_NoOffset(currentIdealTime, frameTime, sectorStartTime) ==
    frameTime - sectorStartTime

\* the time of a stitched frame
IdealFrameTime(currentIdealTime, frameTime, sectorStartTime) ==
    currentIdealTime + (frameTime - sectorStartTime)

\* one iteration of the sector loop of calculateIdealLap; picks and
\* sectors are history: the lap each sector was taken from, and for each
\* sector the sample indexes and the sector time of every lap
SectorStep(lapSeq, indicesPerSector, s, st) ==
    LET startIdx == s * indicesPerSector
        endIdx == startIdx + indicesPerSector
        bestLapIdx == BestLapIdx(lapSeq, startIdx, endIdx)
        bestLap == lapSeq[bestLapIdx]
        bestSectorTime == SectorTime(bestLap, startIdx, endIdx)
        sliceEnd == IF endIdx < Len(bestLap.frames)
                    THEN endIdx ELSE Len(bestLap.frames)
        sectorFrames == SubSeq(bestLap.frames, startIdx + 1, sliceEnd)
        sectorStartTime == sectorFrames[1].time
    IN  [idealFrames |->
             st.idealFrames \o
             [k \in 1..Len(sectorFrames) |->
                 [sectorFrames[k] EXCEPT
                     !.time = IdealFrameTime(st.currentIdealTime, @,
                                             sectorStartTime)]],
         currentIdealTime |-> st.currentIdealTime + bestSectorTime,
         picks |-> Append(st.picks, bestLapIdx),
         sectors |-> Append(st.sectors,
                        [startIdx |-> startIdx,
                         ends |-> [l \in 1..Len(lapSeq) |->
                                      SectorEnd(lapSeq[l], endIdx)],
                         times |-> [l \in 1..Len(lapSeq) |->
                                       SectorTime(lapSeq[l], startIdx, endIdx)],
                         pick |-> bestLapIdx])]

\* the sector loop of calculateIdealLap from sector s on
RECURSIVE SectorLoop(_, _, _, _, _)
SectorLoop(lapSeq, indicesPerSector, numSectors, s, st) ==
    IF s >= numSectors THEN st
    ELSE LET next == SectorStep(lapSeq, indicesPerSector, s, st)
         IN  IF next.currentIdealTime \in Int
             THEN SectorLoop(lapSeq, indicesPerSector, numSectors, s + 1, next)
             ELSE next

\* calculateIdealLap with the laps left unfiltered
IdealLapScan_AllLaps(lapSeq) ==
    LET completeLaps == lapSeq
    IN  IF Len(completeLaps) < 2 THEN Null
        ELSE LET resampledLaps == [l \in 1..Len(completeLaps) |->
                                      resampleLap(completeLaps[l])]
                 minLen == MinLen(resampledLaps)
                 indicesPerSector == MicroSectorSize \div ResampleStep
                 numSectors == minLen \div indicesPerSector
             IN  SectorLoop(resampledLaps, indicesPerSector, numSectors, 0,
                            [idealFrames |-> <<>>, currentIdealTime |-> 0,
                             picks |-> <<>>, sectors |-> <<>>])

\* calculateIdealLap up to the end of its sector loop: Null, or the
\* stitched frames, the running ideal time and the picks
IdealLapScan(lapSeq) ==
    LET completeLaps == SelectSeq(lapSeq, LAMBDA l : l.isComplete)
    IN  IF Len(completeLaps) < 2 THEN Null
        ELSE LET resampledLaps == [l \in 1..Len(completeLaps) |->
                                      resampleLap(completeLaps[l])]
                 minLen == MinLen(resampledLaps)
                 indicesPerSector == MicroSectorSize \div ResampleStep
                 numSectors == minLen \div indicesPerSector
             IN  SectorLoop(resampledLaps, indicesPerSector, numSectors, 0,
                            [idealFrames |-> <<>>, currentIdealTime |-> 0,
                             picks |-> <<>>, sectors |-> <<>>])

\* the value calculateIdealLap returns, from the outcome of its loop
IdealLapOf(st) ==
    IF st = Null THEN Null
    ELSE [lapIndex |-> -1,
          frames |-> st.idealFrames,
          totalDistance |-> Len(st.idealFrames) * ResampleStep,
          lapTime |-> st.currentIdealTime,
          isComplete |-> TRUE]

calculateIdealLap(lapSeq) == IdealLapOf(IdealLapScan(lapSeq))

----------------------------------------------------------------------------
(* getGhostFrame of src/src/hooks/useTelemetry.ts                          *)

\* element i (0-based) of a JavaScript array: undefined outside of it
Elem(arr, i) == IF Has(arr, i) THEN At(arr, i) ELSE Undefined

\* laps.find(..): the first lap (1-based) whose first and last frame times
\* enclose the time, 0 when there is none
FindLap(lapSeq, time) ==
    LET hits == {l \in 1..Len(lapSeq) :
                    /\ time >= lapSeq[l].frames[1].time
                    /\ time <= lapSeq[l].frames[Len(lapSeq[l].frames)].time}
    IN  IF hits = {} THEN 0 ELSE CHOOSE l \in hits : \A m \in hits : l <= m

\* the binary search of getGhostFrame: bestIdx when the loop ends
RECURSIVE BinarySearch(_, _, _, _, _)
BinarySearch(idealFrames, relativeTime, low, high, bestIdx) ==
    IF low > high THEN bestIdx
    ELSE LET mid == (low + high) \div 2
         IN  IF At(idealFrames, mid).time < relativeTime
             THEN BinarySearch(idealFrames, relativeTime, mid + 1, high, mid)
             ELSE BinarySearch(idealFrames, relativeTime, low, mid - 1,
                               bestIdx)

\* the rolling start looked up at the time left to the start
RollingStart_FromStart(idealLapNow, timeToStart) ==
    IF timeToStart < idealLapNow.lapTime
    THEN LET ghostTime == timeToStart
             hits == {k \in 1..Len(idealLapNow.frames) :
                         idealLapNow.frames[k].time
                             >= idealLapNow.frames[1].time + ghostTime}
         IN  IF hits = {}
             THEN Elem(idealLapNow.frames, Len(idealLapNow.frames) - 1)
             ELSE idealLapNow.frames[CHOOSE k \in hits : \A m \in hits : k <= m]
    ELSE Null

\* the rolling start: the ghost finishing its previous lap
RollingStart(idealLapNow, timeToStart) ==
    IF timeToStart < idealLapNow.lapTime
    THEN LET ghostTime == idealLapNow.lapTime - timeToStart
             hits == {k \in 1..Len(idealLapNow.frames) :
                         idealLapNow.frames[k].time
                             >= idealLapNow.frames[1].time + ghostTime}
         IN  IF hits = {}
             THEN Elem(idealLapNow.frames, Len(idealLapNow.frames) - 1)
             ELSE idealLapNow.frames[CHOOSE k \in hits : \A m \in hits : k <= m]
    ELSE Null

\* relativeTime left as the time of the recording
RelativeTime_Absolute(currentFrame, currentLap) == currentFrame.time

\* relativeTime of getGhostFrame
RelativeTime(currentFrame, currentLap) ==
    currentFrame.time - currentLap.frames[1].time

\* getGhostFrame(currentFrame) with idealLap and laps as the hook holds
\* them; lap and relativeTime are history: the lap found (0 = none) and
\* the local relativeTime
GhostScan(currentFrame, idealLapNow, lapSeq) ==
    LET none == [result |-> Null, lap |-> 0, relativeTime |-> 0]
    IN  IF currentFrame = Null \/ currentFrame = Undefined
           \/ idealLapNow = Null \/ Len(lapSeq) = 0
        THEN none
        ELSE
        LET found == FindLap(lapSeq, currentFrame.time)
            lastLap == lapSeq[Len(lapSeq)]
            afterLast == currentFrame.time
                           > lastLap.frames[Len(lastLap.frames)].time
            beforeFirst == currentFrame.time < lapSeq[1].frames[1].time
            lapIdx == IF found # 0 THEN found
                      ELSE IF afterLast THEN Len(lapSeq) ELSE 0
        IN  IF found = 0 /\ ~afterLast /\ beforeFirst
            THEN [none EXCEPT
                    !.result = RollingStart(idealLapNow,
                                   lapSeq[1].frames[1].time - currentFrame.time)]
            ELSE IF lapIdx = 0 THEN none
            ELSE LET relativeTime == RelativeTime(currentFrame, lapSeq[lapIdx])
                     bestIdx == BinarySearch(idealLapNow.frames, relativeTime,
                                    0, Len(idealLapNow.frames) - 1, 0)
                 IN  [result |-> Elem(idealLapNow.frames, bestIdx),
                      lap |-> lapIdx,
                      relativeTime |-> relativeTime]

getGhostFrame(currentFrame, idealLapNow, lapSeq) ==
    GhostScan(currentFrame, idealLapNow, lapSeq).result

----------------------------------------------------------------------------
(* The lap analysis applied to recordings of a closed loop                 *)

MinPeriod == 28
MaxPeriod == 63
MaxLoops == 5
StepMetres == 10
MaxPerimeter == 1280
SlowExtra == 50
FrameInterval == 1 * UnitsPerSecond

Periods == MinPeriod..MaxPeriod
LoopCounts == 0..MaxLoops
Steps == {StepMetres, 2 * StepMetres}
Paces == {"even", "mixed", "coarse"}

Shapes == {"circuit", "shuttle"}

\* a circuit of period frames per loop, step metres apart, driven loops
\* times, kept small enough for 32-bit squared distances; or a shuttle:
\* a car creeping a metre per sample out from the line and back, period
\* frames per round trip
Tracks ==
    {tr \in [period : Periods, loops : LoopCounts, step : Steps \cup {1},
             pace : Paces, shape : Shapes] :
        IF tr.shape = "shuttle"
        THEN tr.step = 1 /\ tr.pace = "even"
        ELSE tr.step \in Steps /\ tr.period * tr.step <= MaxPerimeter}

\* the point at arc length s of a rectangular circuit of sides w and h
RectPos(s, w, h) ==
    IF s < w THEN [latitude |-> 0, longitude |-> s]
    ELSE IF s < w + h THEN [latitude |-> s - w, longitude |-> w]
    ELSE IF s < 2 * w + h THEN [latitude |-> h, longitude |-> w - (s - w - h)]
    ELSE [latitude |-> h - (s - 2 * w - h), longitude |-> 0]

\* the point a shuttle of period frames has reached after s metres
ShuttlePos(s, period) ==
    [latitude |-> 0,
     longitude |-> IF s <= period \div 2 THEN s ELSE period - s]

\* the number of slow sample intervals among the first m of a drive at
\* mixed pace: loops 0, 2, .. are slow over their first half, loops
\* 1, 3, .. over their second half
SlowCount(period, m) ==
    LET half == period \div 2
        j == m \div period
        q == m % period
        partial == IF j % 2 = 0
                   THEN (IF q < half THEN q ELSE half)
                   ELSE (IF q > half THEN q - half ELSE 0)
    IN  ((j + 1) \div 2) * half + (j \div 2) * (period - half) + partial

\* the time of sample m (0-based): at even pace one sample every
\* FrameInterval; at mixed pace a slow interval lasts SlowExtra longer; a
\* coarse clock ticks every other sample, so that two frames share each
\* of its times
SampleTime(tr, m) ==
    IF tr.pace = "coarse" THEN (m \div 2) * 2 * FrameInterval
    ELSE IF tr.pace = "mixed"
    THEN m * FrameInterval + SlowCount(tr.period, m) * SlowExtra
    ELSE m * FrameInterval

\* the recording of a drive: no frame at all for a drive of no loop, else
\* one frame per sample from the start of the first loop to the frame that
\* closes the last one
DriveLoop(tr) ==
    IF tr.loops = 0 THEN <<>>
    ELSE [k \in 1..(tr.loops * tr.period + 1) |->
            LET length == tr.period * tr.step
                w == (3 * length) \div 10
                s == ((k - 1) % tr.period) * tr.step
                pos == IF tr.shape = "shuttle"
                       THEN ShuttlePos(s, tr.period)
                       ELSE RectPos(s, w, length \div 2 - w)
            IN  [time |-> SampleTime(tr, k - 1),
                 latitude |-> pos.latitude * CmPerMetre,
                 longitude |-> pos.longitude * CmPerMetre]]

LapInit ==
    /\ PlayInit
    /\ track \in Tracks
    /\ recording = DriveLoop(track)
    /\ detected = NotDetected
    /\ scan = NotScanned
    /\ ideal = NoIdeal
    /\ resampled = NotResampled
    /\ ghost = NoGhost

\* detectLaps(rawData) of loadData; scan records, for the first candidate
\* (frame 0), the history of the loop of findLapsForPos
RunDetectLaps ==
    /\ ~detected.done
    /\ detected' = [done |-> TRUE, laps |-> detectLaps(recording)]
    /\ scan' = IF Len(recording) < MinFrames THEN NotScanned
               ELSE LET st == ScanLaps(recording,
                                       [lat |-> At(recording, 0).latitude,
                                        lon |-> At(recording, 0).longitude])
                    IN  [fired |-> st.fired, started |-> st.started]
    /\ UNCHANGED <<playVars, recording, track, ideal, resampled, ghost>>

\* calculateIdealLap(detectedLaps) of loadData
RunCalculateIdealLap ==
    /\ detected.done
    /\ ~ideal.done
    /\ LET st == IdealLapScan(detected.laps)
       IN  ideal' = [done |-> TRUE,
                     lap |-> IdealLapOf(st),
                     picks |-> IF st = Null THEN <<>> ELSE st.picks,
                     sectors |-> IF st = Null THEN <<>> ELSE st.sectors]
    /\ UNCHANGED <<playVars, recording, track, detected, scan, resampled, ghost>>

\* resampleLap(l, step) on the k-th detected lap
RunResampleLap(k) ==
    /\ detected.done
    /\ ~resampled.done
    /\ ~ghost.done
    /\ k \in 1..Len(detected.laps)
    /\ resampled' = [done |-> TRUE, of |-> k,
                     lap |-> resampleLap(detected.laps[k])]
    /\ UNCHANGED <<playVars, recording, track, detected, scan, ideal, ghost>>

\* getGhostFrame(data[index]) once the laps and the ideal lap are set
RunGetGhostFrame(index) ==
    /\ ideal.done
    /\ ~ghost.done
    /\ ~resampled.done
    /\ LET g == GhostScan(Elem(recording, index), ideal.lap, detected.laps)
       IN  ghost' = [done |-> TRUE, index |-> index, result |-> g.result,
                     lap |-> g.lap, relativeTime |-> g.relativeTime]
    /\ UNCHANGED <<playVars, recording, track, detected, scan, ideal,
                   resampled>>

LapNext ==
    \/ RunDetectLaps
    \/ RunCalculateIdealLap
    \/ \E k \in 1..MaxLoops : RunResampleLap(k)
    \/ \E index \in 0..(Len(recording) - 1) : RunGetGhostFrame(index)

LapSpec == LapInit /\ [][LapNext]_vars

\* C10: for a closed loop of period T driven N >= 3 full loops and sampled
\* into more than 100 frames, detectLaps reports N or N-1 complete laps,
\* each with lapTime within one sample interval of T.
C10_LoopLapCount ==
    (/\ detected.done
     /\ track.loops >= 3
     /\ track.pace = "even"
     /\ track.shape = "circuit"
     /\ Len(recording) > MinFrames) =>
        LET T == track.period * FrameInterval
            complete == {k \in 1..Len(detected.laps) : detected.laps[k].isComplete}
        IN  /\ Cardinality(complete) \in {track.loops, track.loops - 1}
            /\ \A k \in complete :
                  /\ detected.laps[k].lapTime - T <= FrameInterval
                  /\ T - detected.laps[k].lapTime <= FrameInterval

\* C11: the frames of every lap returned by detectLaps are a contiguous
\* run source[a..b] of the frames given to it, in their original order:
\* none skipped, none duplicated, none reordered.
IsRunOf(lapFrames, frames) ==
    \E a \in 1..Len(frames) :
        /\ a + Len(lapFrames) - 1 <= Len(frames)
        /\ lapFrames = SubSeq(frames, a, a + Len(lapFrames) - 1)

C11_LapFramesContiguous ==
    detected.done =>
        \A k \in 1..Len(detected.laps) :
            /\ Len(detected.laps[k].frames) > 0
            /\ IsRunOf(detected.laps[k].frames, recording)

\* two laps or more, the second one a run from inside the recording
C11_Witness ==
    /\ detected.done
    /\ Len(detected.laps) >= 2
    /\ Len(detected.laps[2].frames) >= 2
    /\ detected.laps[2].frames[1].time > At(recording, 0).time
    /\ IsRunOf(detected.laps[2].frames, recording)

\* C12: detectLaps returns the empty list, without error, for every input
\* of fewer than 100 frames, the empty input included.
C12_ShortInputNoLaps ==
    (detected.done /\ Len(recording) < MinFrames) => detected.laps = <<>>

\* 99 frames of two loops, which without the minimum would hold a lap
C12_Witness ==
    /\ detected.done
    /\ Len(recording) = MinFrames - 1
    /\ track.loops >= 2
    /\ detected.laps = <<>>

\* the empty recording is among the inputs
C12_EmptyInput == detected.done /\ recording = <<>> /\ detected.laps = <<>>

\* the distance of frame i (0-based) from the first candidate, frame 0
Dist0(i) ==
    getDistanceFromLatLonInM(At(recording, i).latitude,
                             At(recording, i).longitude,
                             At(recording, 0).latitude,
                             At(recording, 0).longitude)

\* C18: for a candidate position a crossing fires at frame i exactly when
\* dist[i] > dist[i-1] after the distance had been decreasing and
\* dist[i-1] is under the 20 m threshold, whether or not dist[i] is under
\* it.  (Frame 0 is the candidate itself: the distance has come down from
\* Infinity to it.)
C18_CrossingRule ==
    (detected.done /\ Len(recording) >= MinFrames) =>
        \A i \in 1..(Len(recording) - 1) :
            (i \in scan.fired) <=>
                /\ Dist0(i) > Dist0(i - 1)
                /\ Dist0(i - 1) < START_FINISH_PROXIMITY
                /\ (i = 1 \/ Dist0(i - 1) < Dist0(i - 2))

\* lapStartTime as frame i (0-based) finds it
LapStartBefore(i) ==
    LET earlier == {j \in scan.started : j < i}
    IN  IF earlier = {} THEN At(recording, 0).time
        ELSE At(recording,
                (CHOOSE j \in earlier : \A l \in earlier : l <= j) - 1).time

\* C19: at a crossing a new lap starts if and only if at least 30 s have
\* elapsed between the previous lap start and the crossing; successive
\* lap starts are never less than 30 s apart, and every complete lap has
\* lapTime >= 30 s.
C19_MinLapTime ==
    (detected.done /\ Len(recording) >= MinFrames) =>
        /\ \A i \in scan.fired :
              (i \in scan.started) <=>
                  (At(recording, i).time - LapStartBefore(i) >= MIN_LAP_TIME)
        /\ \A i \in scan.started : \A j \in scan.started :
              i < j => At(recording, j).time - At(recording, i).time
                         >= MIN_LAP_TIME
        /\ \A k \in 1..Len(detected.laps) :
              detected.laps[k].isComplete =>
                  detected.laps[k].lapTime >= MIN_LAP_TIME

\* C20: detectLaps returns zero or more complete laps followed by at most
\* one incomplete lap: an incomplete lap is the last one and all the laps
\* before it are complete.
C20_PartialLapLast ==
    detected.done =>
        \A k \in 1..Len(detected.laps) :
            ~detected.laps[k].isComplete => k = Len(detected.laps)

\* complete laps followed by the trailing partial lap
C20_Witness ==
    /\ detected.done
    /\ Len(detected.laps) >= 3
    /\ detected.laps[1].isComplete
    /\ detected.laps[2].isComplete
    /\ ~detected.laps[Len(detected.laps)].isComplete

\* the complete laps among the detected laps
CompleteLaps == SelectSeq(detected.laps, LAMBDA l : l.isComplete)

\* the frame times of a lap never go down
TimesNonDecreasing(lapFrames) ==
    \A k \in 1..(Len(lapFrames) - 1) :
        lapFrames[k].time <= lapFrames[k + 1].time

\* C13: whenever calculateIdealLap returns an ideal lap, its lapTime is at
\* most the lapTime of every complete input lap, the frame times of the
\* input laps being non-decreasing.
C13_IdealNotSlower ==
    (/\ ideal.done
     /\ ideal.lap # Null
     /\ \A l \in 1..Len(detected.laps) :
           TimesNonDecreasing(detected.laps[l].frames)) =>
        \A l \in 1..Len(CompleteLaps) :
            ideal.lap.lapTime <= CompleteLaps[l].lapTime

\* an ideal lap stitched from sectors of two different laps
C13_Witness ==
    /\ ideal.done
    /\ ideal.lap # Null
    /\ \E a \in 1..Len(ideal.picks) : \E b \in 1..Len(ideal.picks) :
          ideal.picks[a] # ideal.picks[b]
    /\ \A l \in 1..Len(CompleteLaps) :
          ideal.lap.lapTime < CompleteLaps[l].lapTime

\* C14: in every ideal lap returned by calculateIdealLap the frame times
\* start at 0 and never go down over the whole frame list, the
\* micro-sector boundaries included.
C14_IdealTimesMonotone ==
    (ideal.done /\ ideal.lap # Null) =>
        /\ ideal.lap.frames # <<>> => ideal.lap.frames[1].time = 0
        /\ TimesNonDecreasing(ideal.lap.frames)

\* an ideal lap of several sectors where consecutive sectors come from
\* different laps
C14_Witness ==
    /\ ideal.done
    /\ ideal.lap # Null
    /\ Len(ideal.lap.frames) >= 2 * (MicroSectorSize \div ResampleStep)
    /\ ideal.lap.frames[1].time = 0
    /\ \E a \in 1..(Len(ideal.picks) - 1) :
          ideal.picks[a] # ideal.picks[a + 1]

\* C15: calculateIdealLap returns none, without error, whenever its input
\* holds 0 or 1 complete lap, however many incomplete laps it holds.
C15_NeedsTwoCompleteLaps ==
    (ideal.done /\ CompleteCount(detected.laps) < 2) => ideal.lap = Null

\* one complete lap and a partial lap give none
C15_Witness ==
    /\ ideal.done
    /\ CompleteCount(detected.laps) = 1
    /\ Len(detected.laps) = 2
    /\ ideal.lap = Null

\* a single partial lap gives none, and so does the empty list
C15_NoCompleteLap ==
    /\ ideal.done
    /\ CompleteCount(detected.laps) = 0
    /\ Len(detected.laps) = 1
    /\ ideal.lap = Null

ArcTolerance == 2

\* point p is on the segment from f1 to f2, at distance along from f1,
\* within the rounding of the whole-centimetre arithmetic
OnSegmentAt(p, f1, f2, along, segment) ==
    LET fromF1 == getDistanceFromLatLonInM(f1.latitude, f1.longitude,
                                           p.latitude, p.longitude)
        toF2 == getDistanceFromLatLonInM(p.latitude, p.longitude,
                                         f2.latitude, f2.longitude)
    IN  /\ fromF1 - along <= ArcTolerance
        /\ along - fromF1 <= ArcTolerance
        /\ toF2 - (segment - along) <= ArcTolerance
        /\ (segment - along) - toF2 <= ArcTolerance

\* point p is at arc length d on the path through the frames, distMap
\* being the distance run up to each of them
AtArcLength(p, lapFrames, distMap, d) ==
    \E a \in 1..(Len(lapFrames) - 1) :
        /\ distMap[a] <= d
        /\ d <= distMap[a + 1]
        /\ OnSegmentAt(p, lapFrames[a], lapFrames[a + 1],
                       d - distMap[a], distMap[a + 1] - distMap[a])

\* C17: for a lap of at least 2 frames resampleLap returns
\* floor(totalDistance / step) + 1 frames, the k-th of them at arc length
\* k*step on the original path, keeps totalDistance, and gives
\* non-decreasing times when the input times are non-decreasing.
C17_ResampledOnGrid ==
    (resampled.done /\ Len(detected.laps[resampled.of].frames) >= 2) =>
        LET lap == detected.laps[resampled.of]
            out == resampled.lap
            distMap == DistMap(lap.frames)
        IN  /\ Len(out.frames) = lap.totalDistance \div ResampleStep + 1
            /\ \A k \in 0..(Len(out.frames) - 1) :
                  AtArcLength(At(out.frames, k), lap.frames, distMap,
                              k * ResampleStep)
            /\ out.totalDistance = lap.totalDistance
            /\ TimesNonDecreasing(lap.frames) =>
                  TimesNonDecreasing(out.frames)

\* a resampled lap with samples strictly inside the original segments
C17_Witness ==
    /\ resampled.done
    /\ Len(detected.laps[resampled.of].frames) >= 2
    /\ Len(resampled.lap.frames) > Len(detected.laps[resampled.of].frames)
    /\ \E k \in 1..Len(resampled.lap.frames) :
          \A j \in 1..Len(detected.laps[resampled.of].frames) :
              resampled.lap.frames[k].time
                  # detected.laps[resampled.of].frames[j].time

\* the frames (0-based) of the recording that are the first frame of a
\* detected lap
LapStartIndexes ==
    {i \in 0..(Len(recording) - 1) :
        \E l \in 1..Len(detected.laps) :
            detected.laps[l].frames[1] = At(recording, i)}

\* C16: for a current frame that is exactly the start of a detected lap
\* (first, middle or trailing partial), getGhostFrame computes
\* relativeTime = 0 and returns the first frame of the ideal lap.
C16_GhostAtLapStart ==
    (/\ ghost.done
     /\ ideal.lap # Null
     /\ ghost.index \in LapStartIndexes) =>
        /\ ghost.lap # 0
        /\ detected.laps[ghost.lap].frames[1] = At(recording, ghost.index)
        /\ ghost.relativeTime = 0
        /\ ghost.result = Elem(ideal.lap.frames, 0)
        /\ ghost.result # Undefined

\* the current frame starts a lap after the first one
C16_Witness ==
    /\ ghost.done
    /\ ideal.lap # Null
    /\ ghost.index \in LapStartIndexes
    /\ ghost.lap >= 2
    /\ ghost.relativeTime = 0
    /\ ghost.result = ideal.lap.frames[1]

\* the current frame starts the trailing partial lap
C16_PartialLapStart ==
    /\ ghost.done
    /\ ideal.lap # Null
    /\ ghost.index \in LapStartIndexes
    /\ ghost.lap = Len(detected.laps)
    /\ ~detected.laps[ghost.lap].isComplete
    /\ ghost.result = ideal.lap.frames[1]

\* the frames of the laps from lap k on, one lap after the other
RECURSIVE ConcatFrames(_, _)
ConcatFrames(lapSeq, k) ==
    IF k > Len(lapSeq) THEN <<>>
    ELSE lapSeq[k].frames \o ConcatFrames(lapSeq, k + 1)

\* C28: in a non-empty result of detectLaps the laps are disjoint and
\* adjacent: lap k+1 starts at the source frame right after the last frame
\* of lap k and the last lap ends at the final source frame, so the laps'
\* frames, concatenated, are a contiguous suffix of the source sequence.
C28_LapsTileSuffix ==
    (detected.done /\ detected.laps # <<>>) =>
        LET all == ConcatFrames(detected.laps, 1)
        IN  /\ Len(all) <= Len(recording)
            /\ all = SubSeq(recording, Len(recording) - Len(all) + 1,
                            Len(recording))

\* three laps or more that start after the first frame of the recording
C28_Witness ==
    /\ detected.done
    /\ Len(detected.laps) >= 3
    /\ detected.laps[1].frames[1] # recording[1]
    /\ detected.laps[Len(detected.laps)].frames
           [Len(detected.laps[Len(detected.laps)].frames)]
         = recording[Len(recording)]

\* C29: for every complete lap k returned by detectLaps, lapTime is the
\* time of the first frame of lap k+1 minus the time of the first frame of
\* lap k.
C29_LapTimesTile ==
    detected.done =>
        \A k \in 1..Len(detected.laps) :
            detected.laps[k].isComplete =>
                /\ k < Len(detected.laps)
                /\ detected.laps[k].lapTime
                     = detected.laps[k + 1].frames[1].time
                         - detected.laps[k].frames[1].time

\* C21: in calculateIdealLap every micro-sector s spans the same sample
\* index range [s*k, (s+1)*k], k = floor(microSectorSize / 5), for every
\* resampled lap, the range lies within the sample count of the shortest
\* lap, each lap's sector time is the difference of its sample times at
\* those two indexes, and the lap chosen has the least such sector time.
C21_SectorRanges ==
    (ideal.done /\ ideal.lap # Null) =>
        LET k == MicroSectorSize \div ResampleStep
        IN  \A s \in 1..Len(ideal.sectors) :
                LET sector == ideal.sectors[s]
                IN  /\ sector.startIdx = (s - 1) * k
                    /\ \A l \in DOMAIN sector.ends : sector.ends[l] = s * k
                    /\ \A l \in DOMAIN sector.times :
                          sector.times[sector.pick] <= sector.times[l]

\* the frame handed to getGhostFrame
GhostFrameArg == At(recording, ghost.index)

\* C22: when the current frame lies inside a lap, getGhostFrame returns the
\* ideal-lap frame with the greatest index whose time does not exceed
\* relativeTime = currentTime - (that lap's first frame time); an ideal
\* frame whose time equals relativeTime is the one returned.
C22_LatestFrameNotAfter ==
    (/\ ghost.done
     /\ ideal.lap # Null
     /\ ideal.lap.frames # <<>>
     /\ ghost.lap # 0
     /\ GhostFrameArg.time >= detected.laps[ghost.lap].frames[1].time
     /\ GhostFrameArg.time
          <= detected.laps[ghost.lap].frames
                 [Len(detected.laps[ghost.lap].frames)].time) =>
        LET notAfter == {j \in 1..Len(ideal.lap.frames) :
                            ideal.lap.frames[j].time <= ghost.relativeTime}
        IN  /\ ghost.relativeTime
                 = GhostFrameArg.time - detected.laps[ghost.lap].frames[1].time
            /\ notAfter # {}
            /\ ghost.result =
                 ideal.lap.frames[CHOOSE j \in notAfter :
                                      \A m \in notAfter : m <= j]

\* C23: when the current frame's time precedes the first lap's first frame
\* by a gap g: if g < idealLap.lapTime, getGhostFrame returns the first
\* ideal frame whose time is >= ghostTime = idealLap.lapTime - g, or the
\* last ideal frame if there is none; otherwise it returns none.
C23_RollingStart ==
    (/\ ghost.done
     /\ ideal.lap # Null
     /\ detected.laps # <<>>
     /\ GhostFrameArg.time < detected.laps[1].frames[1].time) =>
        LET g == detected.laps[1].frames[1].time - GhostFrameArg.time
            ghostTime == ideal.lap.lapTime - g
            hits == {j \in 1..Len(ideal.lap.frames) :
                        ideal.lap.frames[j].time >= ghostTime}
        IN  IF g < ideal.lap.lapTime
            THEN ghost.result =
                   IF hits # {}
                   THEN ideal.lap.frames[CHOOSE j \in hits :
                                             \A m \in hits : j <= m]
                   ELSE ideal.lap.frames[Len(ideal.lap.frames)]
            ELSE ghost.result = Null

\* a frame of the out lap close enough to the start: the ghost is a frame
\* inside the ideal lap
C23_Witness ==
    /\ ghost.done
    /\ ideal.lap # Null
    /\ detected.laps # <<>>
    /\ GhostFrameArg.time < detected.laps[1].frames[1].time
    /\ detected.laps[1].frames[1].time - GhostFrameArg.time
         < ideal.lap.lapTime
    /\ \E j \in 2..(Len(ideal.lap.frames) - 1) :
          ghost.result = ideal.lap.frames[j]

\* a frame of the out lap a whole ideal lap or more before the start
C23_TooEarly ==
    /\ ghost.done
    /\ ideal.lap # Null
    /\ detected.laps # <<>>
    /\ detected.laps[1].frames[1].time - GhostFrameArg.time
         >= ideal.lap.lapTime
    /\ ghost.result = Null

\* C30: for every ideal lap calculateIdealLap can return, also from laps
\* shorter than one micro-sector, and every non-empty lap list, if the
\* current frame's time is at or after the first lap's first frame time
\* then getGhostFrame returns an element of the ideal lap's frames, never
\* none or undefined.
C30_GhostIsIdealFrame ==
    (/\ ghost.done
     /\ ideal.lap # Null
     /\ detected.laps # <<>>
     /\ GhostFrameArg.time >= detected.laps[1].frames[1].time) =>
        \E j \in 1..Len(ideal.lap.frames) :
            ghost.result = ideal.lap.frames[j]

----------------------------------------------------------------------------
(* Playback clock, continued                                               *)

\* C24: the index the tick handler advances from, stateRef.currentIndex,
\* equals the published current index in every reachable state, for any
\* sequence of source load, source change, seek, play, pause and tick;
\* after a source change both are 0.
C24_RefMatchesPublished == stateRef.currentIndex = currentIndex

\* the last operation was a tick of the playing clock that ran to its end
\* without reaching the end of the sequence
TickedShortOfEnd ==
    /\ op = "tick"
    /\ ~thrown
    /\ pre.refPlaying
    /\ ~ReachedEnd(pre.frames, Advance(pre.frames, pre.refIndex, targetTime))

\* C25: while Playing over frames with non-decreasing times, after every
\* tick that does not reach the end of the sequence the index i and the
\* accumulated playback time p satisfy
\* frames[i].time <= p < frames[i+1].time.
C25_TimeWithinFrame ==
    TickedShortOfEnd =>
        /\ Has(stateRef.data, stateRef.currentIndex)
        /\ Has(stateRef.data, stateRef.currentIndex + 1)
        /\ At(stateRef.data, stateRef.currentIndex) <= playbackTimeRef
        /\ playbackTimeRef < At(stateRef.data, stateRef.currentIndex + 1)

\* C27: setSpeed(multiplier), Paused or Playing, changes only the speed
\* multiplier and the wall-clock reference: the current index, the
\* accumulated playback time, the play/pause flag and the loop flag are as
\* they were (as the effects still pending before it leave them).
SpeedChangeOnly ==
    playbackSpeed' # playbackSpeed =>
        /\ currentIndex' = currentIndex
        /\ stateRef'.currentIndex = FlushPending(Refs).sr.currentIndex
        /\ playbackTimeRef' = FlushPending(Refs).pt
        /\ isPlaying' = isPlaying
        /\ isLooping' = isLooping
        /\ stateRef'.isLooping = FlushPending(Refs).sr.isLooping

C27_SetSpeedFrame == [][SpeedChangeOnly]_vars

----------------------------------------------------------------------------
(* A playback run: sources, loads, seeks and the speed come while Paused,   *)
(* then the clock plays with looping disabled until it pauses itself       *)

RunMaxNow == 7000
RunLength == 3500

\* a source change made while Paused
RunSelectSource(s) == ~isPlaying /\ SelectSource(s)

\* a load that resolves while Paused: the clock plays over one sequence
RunLoadComplete(s) == ~isPlaying /\ LoadComplete(s)

\* a seek to a frame of the loaded sequence, made while Paused
RunSeek(index) ==
    /\ ~isPlaying
    /\ Has(stateRef.data, index)
    /\ seek(index)

\* a speed change made while Paused
RunSetSpeed(m) == ~isPlaying /\ setPlaybackSpeed(m)

\* play, pressed while there is time left for a whole run
RunPlay ==
    /\ ~isPlaying
    /\ now + RunLength <= RunMaxNow
    /\ TogglePlay

RunTick == \E d \in TickDeltas : loopUntil(d, RunMaxNow)

RunNext ==
    \/ \E s \in Sources : RunSelectSource(s)
    \/ \E s \in Sources : RunLoadComplete(s)
    \/ \E s \in Sources : \E index \in 0..(Len(FramesOf(s)) - 1) :
            RunSeek(index)
    \/ \E m \in Speeds : RunSetSpeed(m)
    \/ RunPlay
    \/ RunTick
    \/ FlushEffects

\* the browser runs every scheduled animation frame, and React runs the
\* passive effects of every render
RunSpec ==
    /\ Init
    /\ [][RunNext]_vars
    /\ WF_vars(RunTick)
    /\ WF_vars(FlushEffects)

\* the clock is Playing over a non-empty sequence with looping disabled
RunPlaying ==
    /\ isPlaying
    /\ stateRef.isPlaying
    /\ ~stateRef.isLooping
    /\ Len(stateRef.data) > 0

\* the clock is Paused at the final frame
PausedAtEnd ==
    /\ ~isPlaying
    /\ currentIndex = Len(stateRef.data) - 1

\* C26: Playing with looping disabled and a positive speed over a finite
\* non-empty sequence, with ticks arriving at positive intervals and no
\* seek, speed change or source change, the clock eventually is Paused at
\* index length-1, and a Paused clock becomes Playing only by play.
C26_PlaysToEnd ==
    /\ RunPlaying ~> PausedAtEnd
    /\ [][(~isPlaying /\ isPlaying') => TogglePlay]_vars

====
